---------------------------- MODULE Spec2Model ----------------------------
(***************************************************************************)
(* Hot-swap coordination of the trivy server (package server):             *)
(* ListenAndServe's request middleware (withToken, withWaitGroup), the     *)
(* background goroutine that seeds the metric gauge and calls              *)
(* dbWorker.update every hour, dbWorker.update / dbWorker.hotUpdate, and   *)
(* the two samples of the prometheus gauge.                                *)
(*                                                                         *)
(* sync.WaitGroup is modelled by its counter: Add(n) adds n, Done()        *)
(* subtracts one, Wait() returns only in a state where the counter is 0.   *)
(* The runtime panics of a misused WaitGroup ("WaitGroup is reused before  *)
(* previous Wait has returned") are outside the model: every behaviour of  *)
(* the model is a behaviour of the program in which no such panic fires.   *)
(***************************************************************************)
EXTENDS Integers, FiniteSets, Sequences, TLC

\* ------------------------------------------------------------- bounds
NumRequests == 2      \* concurrent HTTP requests (goroutines of net/http)
MaxTime     == 1      \* time.Now().Unix() ranges over 0..MaxTime
MaxVersion  == 2      \* database versions 1..MaxVersion

Requests == 1..NumRequests
Times    == 0..MaxTime
Versions == 1..MaxVersion

VARIABLES
    dbUpdateWg,   \* counter of the WaitGroup dbUpdateWg (update pending)
    requestWg,    \* counter of the WaitGroup requestWg (requests in flight)
    rpc,          \* rpc[r]: position of request r in withToken/withWaitGroup
    rerr,         \* rerr[r]: the error request r was answered with last ("" for none)
    parked,       \* requests that called dbUpdateWg.Wait while an update was pending
    preAdmitted,  \* requests still in the admission they held at the updater's dbUpdateWg.Add(1)
    drained,      \* some request has finished the admission it held at that Add(1)
    token,        \* c.Token is non-empty
    wpc,          \* position of the background goroutine
    gaugeNil,     \* c.GaugeMetric == nil
    attempt,      \* sample last_db_update_attempt: <<>> (never set) or <<t>>
    success,      \* sample last_db_update: <<>> (never set) or <<t>>
    now,          \* time.Now().Unix()
    dbOpen,       \* the process-wide trivy-db handle is open
    liveFile,     \* db.Path(cacheDir): the database file, named by the metadata it embeds
    liveMeta,     \* metadata record persisted in cacheDir
    tmpDir,       \* the staging directory of hotUpdate exists
    tmpFile,      \* db.Path(tmpDir): <<>> (no file) or <<file>>
    herr,         \* error hotUpdate is returning ("" for nil)
    uerr,         \* error the last update returned ("none" before the first return, "" for nil)
    calls,        \* operations the current/last cycle has executed
    pre           \* state at the call of update of the current/last cycle

vars == <<dbUpdateWg, requestWg, rpc, rerr, parked, preAdmitted, drained, token, wpc,
          gaugeNil, attempt, success, now, dbOpen, liveFile, liveMeta,
          tmpDir, tmpFile, herr, uerr, calls, pre>>

reqVars  == <<rpc, rerr, parked, token>>
gateVars == <<dbUpdateWg, requestWg, preAdmitted, drained>>
dbVars   == <<dbOpen, liveFile, liveMeta>>
tmpVars  == <<tmpDir, tmpFile>>
gaugeVars == <<gaugeNil, attempt, success>>

\* xerrors.Errorf("<msg>: %w", err)
Wrap(msg, err) == msg \o ": " \o err

\* The error every failing collaborator (dbClient, db, utils, ioutil) returns.
Fail == "fail"

\* The database published as version v, named by the metadata it embeds.
Fixture(v) == [Version |-> v, UpdatedAt |-> v - 1]

Files == {Fixture(v) : v \in Versions}

\* What a cycle is compared with: the state at its call of update.
Snapshot == [now |-> now, dbUpdateWg |-> dbUpdateWg, dbOpen |-> dbOpen,
             liveFile |-> liveFile, liveMeta |-> liveMeta,
             attempt |-> attempt, success |-> success]

Init ==
    /\ dbUpdateWg = 0
    /\ requestWg = 0
    /\ rpc = [r \in Requests |-> "idle"]
    /\ rerr = [r \in Requests |-> ""]
    /\ parked = {}
    /\ preAdmitted = {}
    /\ drained = FALSE
    /\ token \in BOOLEAN
    /\ wpc = "seed"
    /\ gaugeNil \in BOOLEAN
    /\ attempt = <<>>
    /\ success = <<>>
    /\ now = 0
    /\ dbOpen = TRUE
    /\ liveFile = Fixture(1)
    /\ liveMeta = Fixture(1)
    /\ tmpDir = FALSE
    /\ tmpFile = <<>>
    /\ herr = ""
    /\ uerr = "none"
    /\ calls = {}
    /\ pre = Snapshot

\* ------------------------------------------------- request middleware

\* The routes ListenAndServe registers, each as
\* withToken(withWaitGroup(handler)).
Routes == <<"/metrics", "scanner", "cache", "osDetector", "libDetector">>

\* The route request r is for: the requests are spread over the routes, the
\* first one being a metrics scrape.
RouteOf(r) == Routes[((r - 1) % Len(Routes)) + 1]

\* The /metrics route registered as withToken(promHandler), outside
\* withWaitGroup: an accepted scrape runs its handler at once.
withToken_MetricsUngated(r) ==
    /\ rpc[r] = "idle"
    /\ \E hdrMatches \in BOOLEAN :
         IF token /\ ~hdrMatches
         THEN /\ rerr' = [rerr EXCEPT ![r] = "unauthenticated"]
              /\ UNCHANGED <<rpc, parked>>
         ELSE /\ rpc' = [rpc EXCEPT ![r] =
                            IF RouteOf(r) = "/metrics" THEN "body" ELSE "wait"]
              /\ rerr' = [rerr EXCEPT ![r] = ""]
              /\ parked' = IF dbUpdateWg > 0 /\ RouteOf(r) # "/metrics"
                           THEN parked \cup {r} ELSE parked
    /\ UNCHANGED <<gateVars, token, wpc, gaugeVars, now, dbVars, tmpVars, herr, uerr, calls, pre>>

\* withToken writing the unauthenticated error and then, for want of the
\* return, calling the wrapped handler all the same.
withToken_MissingReturn(r) ==
    /\ rpc[r] = "idle"
    /\ \E hdrMatches \in BOOLEAN :
         /\ rerr' = [rerr EXCEPT ![r] = IF token /\ ~hdrMatches
                                        THEN "unauthenticated" ELSE ""]
         /\ rpc' = [rpc EXCEPT ![r] = "wait"]
         /\ parked' = IF dbUpdateWg > 0 THEN parked \cup {r} ELSE parked
    /\ UNCHANGED <<gateVars, token, wpc, gaugeVars, now, dbVars, tmpVars, herr, uerr, calls, pre>>

\* A request reaches withToken; an accepted one enters withWaitGroup's handler
\* and is about to call dbUpdateWg.Wait().
withToken(r) ==
    /\ rpc[r] = "idle"
    /\ \E hdrMatches \in BOOLEAN :
         IF token /\ ~hdrMatches
         THEN /\ rerr' = [rerr EXCEPT ![r] = "unauthenticated"]
              /\ UNCHANGED <<rpc, parked>>
         ELSE /\ rpc' = [rpc EXCEPT ![r] = "wait"]
              /\ rerr' = [rerr EXCEPT ![r] = ""]
              /\ parked' = IF dbUpdateWg > 0 THEN parked \cup {r} ELSE parked
    /\ UNCHANGED <<gateVars, token, wpc, gaugeVars, now, dbVars, tmpVars, herr, uerr, calls, pre>>

\* dbUpdateWg.Wait() returning without looking at the counter.
ReqWaitUpdate_NoWait(r) ==
    /\ rpc[r] = "wait"
    /\ rpc' = [rpc EXCEPT ![r] = "add"]
    /\ UNCHANGED <<rerr, parked, gateVars, token, wpc, gaugeVars, now, dbVars, tmpVars, herr, uerr, calls, pre>>

\* dbUpdateWg.Wait() returning only while no other request is in flight, as a
\* mutex around the handler would make it.
ReqWaitUpdate_OneAtATime(r) ==
    /\ rpc[r] = "wait"
    /\ dbUpdateWg = 0
    /\ requestWg = 0
    /\ rpc' = [rpc EXCEPT ![r] = "add"]
    /\ UNCHANGED <<rerr, parked, gateVars, token, wpc, gaugeVars, now, dbVars, tmpVars, herr, uerr, calls, pre>>

\* dbUpdateWg.Wait() returns: the update-pending counter is zero.
ReqWaitUpdate(r) ==
    /\ rpc[r] = "wait"
    /\ dbUpdateWg = 0
    /\ rpc' = [rpc EXCEPT ![r] = "add"]
    /\ UNCHANGED <<rerr, parked, gateVars, token, wpc, gaugeVars, now, dbVars, tmpVars, herr, uerr, calls, pre>>

\* requestWg.Add(1)
ReqAdd(r) ==
    /\ rpc[r] = "add"
    /\ requestWg' = requestWg + 1
    /\ rpc' = [rpc EXCEPT ![r] = "body"]
    /\ UNCHANGED <<rerr, parked, dbUpdateWg, preAdmitted, drained, token, wpc, gaugeVars, now, dbVars, tmpVars, herr, uerr, calls, pre>>

\* A handler that records the time of the request in the
\* last_db_update_attempt sample.
ReqServe_WritesMetric(r) ==
    /\ rpc[r] = "body"
    /\ \E res \in {"", "error"} : rerr' = [rerr EXCEPT ![r] = res]
    /\ requestWg' = requestWg - 1
    /\ preAdmitted' = preAdmitted \ {r}
    /\ drained' = (drained \/ r \in preAdmitted)
    /\ rpc' = [rpc EXCEPT ![r] = "idle"]
    /\ attempt' = <<now>>
    /\ UNCHANGED <<gaugeNil, success>>
    /\ UNCHANGED <<parked, dbUpdateWg, token, wpc, now, dbVars, tmpVars, herr, uerr, calls, pre>>

\* The handler returning with requestWg.Done() run only after a normal answer.
ReqServe_DoneOnlyOnSuccess(r) ==
    /\ rpc[r] = "body"
    /\ \E res \in {"", "error"} :
         /\ rerr' = [rerr EXCEPT ![r] = res]
         /\ requestWg' = IF res = "" THEN requestWg - 1 ELSE requestWg
    /\ preAdmitted' = preAdmitted \ {r}
    /\ drained' = (drained \/ r \in preAdmitted)
    /\ rpc' = [rpc EXCEPT ![r] = "idle"]
    /\ UNCHANGED <<parked, dbUpdateWg, token, wpc, gaugeVars, now, dbVars, tmpVars, herr, uerr, calls, pre>>

\* base.ServeHTTP(w, r) returns, normally or with an error answer (a panic
\* of the handler is recovered by net/http after the deferred calls ran),
\* and the deferred requestWg.Done() runs. While rpc[r] = "body" the wrapped
\* handler is executing and reads the database.
ReqServe(r) ==
    /\ rpc[r] = "body"
    /\ \E res \in {"", "error"} : rerr' = [rerr EXCEPT ![r] = res]
    /\ requestWg' = requestWg - 1
    /\ preAdmitted' = preAdmitted \ {r}
    /\ drained' = (drained \/ r \in preAdmitted)
    /\ rpc' = [rpc EXCEPT ![r] = "idle"]
    /\ UNCHANGED <<parked, dbUpdateWg, token, wpc, gaugeVars, now, dbVars, tmpVars, herr, uerr, calls, pre>>

\* ------------------------------------------------------ metrics gauge

Gauge == [nil |-> gaugeNil, attempt |-> attempt, success |-> success]

SetGauge(g) ==
    /\ gaugeNil' = g.nil
    /\ attempt' = g.attempt
    /\ success' = g.success

NilGauge == "Prometheus gauge found to be nil"

\* updateLastDBUpdatePrometheus doing nothing and returning nil on a nil gauge.
updateLastDBUpdatePrometheus_SilentOnNil(g, t, onlyDBAttempt) ==
    IF g.nil
    THEN [err |-> "", g |-> g]
    ELSE IF onlyDBAttempt
         THEN [err |-> "", g |-> [g EXCEPT !.attempt = <<t>>]]
         ELSE [err |-> "", g |-> [g EXCEPT !.success = <<t>>]]

\* updateLastDBUpdatePrometheus(gauge, time, onlyDBAttempt): the error it
\* returns ("" for nil) and the gauge afterwards.
updateLastDBUpdatePrometheus(g, t, onlyDBAttempt) ==
    IF g.nil
    THEN [err |-> NilGauge, g |-> g]
    ELSE IF onlyDBAttempt
         THEN [err |-> "", g |-> [g EXCEPT !.attempt = <<t>>]]
         ELSE [err |-> "", g |-> [g EXCEPT !.success = <<t>>]]

\* initializeMetricGauge seeding the attempt sample only.
initializeMetricGauge_OnlyAttempt(g, metaOk, metadata) ==
    IF ~metaOk
    THEN [err |-> Wrap("Error initialising the metrics for prometheus endpoint", Fail), g |-> g]
    ELSE LET a == updateLastDBUpdatePrometheus(g, metadata.UpdatedAt, TRUE) IN
         IF a.err # ""
         THEN [err |-> Wrap(a.err, a.err), g |-> a.g]
         ELSE [err |-> "", g |-> a.g]

\* initializeMetricGauge(gauge, cacheDir); metaOk: m.Get() read the metadata.
initializeMetricGauge(g, metaOk, metadata) ==
    IF ~metaOk
    THEN [err |-> Wrap("Error initialising the metrics for prometheus endpoint", Fail), g |-> g]
    ELSE LET a == updateLastDBUpdatePrometheus(g, metadata.UpdatedAt, TRUE) IN
         IF a.err # ""
         THEN [err |-> Wrap(a.err, a.err), g |-> a.g]
         ELSE LET b == updateLastDBUpdatePrometheus(a.g, metadata.UpdatedAt, FALSE) IN
              IF b.err # ""
              THEN [err |-> Wrap(b.err, b.err), g |-> b.g]
              ELSE [err |-> "", g |-> b.g]

\* ------------------------------------------- the background goroutine

\* The goroutine keeping c.GaugeMetric as it is when initializeMetricGauge
\* failed.
Seed_KeepsGaugeOnError ==
    /\ wpc = "seed"
    /\ \E metaOk \in BOOLEAN :
         SetGauge(initializeMetricGauge(Gauge, metaOk, liveMeta).g)
    /\ wpc' = "sleep"
    /\ UNCHANGED <<reqVars, gateVars, now, dbVars, tmpVars, herr, uerr, calls, pre>>

\* The goroutine of ListenAndServe up to its loop: initializeDBWorker, then
\* initializeMetricGauge, whose failure sets c.GaugeMetric to nil.
Seed ==
    /\ wpc = "seed"
    /\ \E metaOk \in BOOLEAN :
         LET res == initializeMetricGauge(Gauge, metaOk, liveMeta) IN
         IF res.err # ""
         THEN SetGauge([res.g EXCEPT !.nil = TRUE])
         ELSE SetGauge(res.g)
    /\ wpc' = "sleep"
    /\ UNCHANGED <<reqVars, gateVars, now, dbVars, tmpVars, herr, uerr, calls, pre>>

\* The clock advances while the goroutine sleeps or downloads.
Tick ==
    /\ wpc \in {"sleep", "download"}
    /\ now < MaxTime
    /\ now' = now + 1
    /\ UNCHANGED <<reqVars, gateVars, wpc, gaugeVars, dbVars, tmpVars, herr, uerr, calls, pre>>

\* update calling NeedsUpdate without having set the attempt sample.
UpdateAttempt_NoAttemptSample ==
    /\ wpc = "sleep"
    /\ pre' = Snapshot
    /\ calls' = {}
    /\ herr' = ""
    /\ LET res == updateLastDBUpdatePrometheus(Gauge, now, TRUE) IN
         /\ UNCHANGED gaugeVars
         /\ IF res.err # ""
            THEN /\ uerr' = Wrap(res.err, res.err)
                 /\ wpc' = "sleep"
            ELSE /\ uerr' = "running"
                 /\ wpc' = "needsUpdate"
    /\ UNCHANGED <<reqVars, gateVars, now, dbVars, tmpVars>>

\* The loop leaving the for statement when update has returned an error.
UpdateAttempt_StopOnError ==
    /\ wpc = "sleep"
    /\ uerr \in {"none", ""}
    /\ pre' = Snapshot
    /\ calls' = {}
    /\ herr' = ""
    /\ LET res == updateLastDBUpdatePrometheus(Gauge, now, TRUE) IN
         /\ SetGauge(res.g)
         /\ IF res.err # ""
            THEN /\ uerr' = Wrap(res.err, res.err)
                 /\ wpc' = "sleep"
            ELSE /\ uerr' = "running"
                 /\ wpc' = "needsUpdate"
    /\ UNCHANGED <<reqVars, gateVars, now, dbVars, tmpVars>>

\* time.Sleep(1 * time.Hour) returns and the loop calls update: the attempt
\* sample is set, or update returns the nil-gauge error.
UpdateAttempt ==
    /\ wpc = "sleep"
    /\ pre' = Snapshot
    /\ calls' = {}
    /\ herr' = ""
    /\ LET res == updateLastDBUpdatePrometheus(Gauge, now, TRUE) IN
         /\ SetGauge(res.g)
         /\ IF res.err # ""
            THEN /\ uerr' = Wrap(res.err, res.err)
                 /\ wpc' = "sleep"
            ELSE /\ uerr' = "running"
                 /\ wpc' = "needsUpdate"
    /\ UNCHANGED <<reqVars, gateVars, now, dbVars, tmpVars>>

\* What calls records of the result of NeedsUpdate.
NeedsUpdateReturned(res) == "NeedsUpdate=" \o res

\* update going on to hotUpdate when NeedsUpdate returned false.
UpdateNeedsUpdate_IgnoreFalse ==
    /\ wpc = "needsUpdate"
    /\ \E res \in {"true", "false", "err"} :
         /\ calls' = calls \cup {"NeedsUpdate", NeedsUpdateReturned(res)}
         /\ CASE res = "err"   -> /\ uerr' = "failed to check if db needs an update"
                                  /\ wpc' = "sleep"
              [] res = "false" -> /\ uerr' = uerr
                                  /\ wpc' = "tempDir"
              [] res = "true"  -> /\ uerr' = uerr
                                  /\ wpc' = "tempDir"
    /\ UNCHANGED <<reqVars, gateVars, gaugeVars, now, dbVars, tmpVars, herr, pre>>

\* update not looking at the error of NeedsUpdate.
UpdateNeedsUpdate_IgnoreError ==
    /\ wpc = "needsUpdate"
    /\ \E res \in {"true", "false", "err"} :
         /\ calls' = calls \cup {"NeedsUpdate", NeedsUpdateReturned(res)}
         /\ CASE res = "err"   -> /\ uerr' = uerr
                                  /\ wpc' = "tempDir"
              [] res = "false" -> /\ uerr' = ""
                                  /\ wpc' = "sleep"
              [] res = "true"  -> /\ uerr' = uerr
                                  /\ wpc' = "tempDir"
    /\ UNCHANGED <<reqVars, gateVars, gaugeVars, now, dbVars, tmpVars, herr, pre>>

\* update: w.dbClient.NeedsUpdate(appVersion, false, false) and the two
\* early returns.
UpdateNeedsUpdate ==
    /\ wpc = "needsUpdate"
    /\ \E res \in {"true", "false", "err"} :
         /\ calls' = calls \cup {"NeedsUpdate", NeedsUpdateReturned(res)}
         /\ CASE res = "err"   -> /\ uerr' = "failed to check if db needs an update"
                                  /\ wpc' = "sleep"
              [] res = "false" -> /\ uerr' = ""
                                  /\ wpc' = "sleep"
              [] res = "true"  -> /\ uerr' = uerr
                                  /\ wpc' = "tempDir"
    /\ UNCHANGED <<reqVars, gateVars, gaugeVars, now, dbVars, tmpVars, herr, pre>>

\* w.dbClient.Download(ctx, tmpDir, false): what db.Path(tmpDir) holds
\* afterwards.
Download(ok, file) == IF ok THEN <<file>> ELSE <<>>

\* The versions a download can fetch: the published database is never older
\* than the installed one.
Published == {v \in Versions : v >= liveFile.Version}

\* utils.CopyFile(src, dst): what dst holds afterwards; a failed copy leaves
\* dst as it was.
CopyFile(src, dst, ok) == IF ok THEN src ELSE dst

\* w.dbClient.UpdateMetadata(cacheDir): the metadata record persisted in
\* cacheDir afterwards, that of the database file now in cacheDir.
UpdateMetadata(file, old, ok) == IF ok THEN file ELSE old

\* os.RemoveAll(tmpDir) called at the end of hotUpdate instead of deferred: an
\* error return leaves the staging directory behind.
UpdateReturn_RemoveOnlyOnSuccess(e) ==
    /\ herr' = e
    /\ tmpDir' = IF e # "" THEN tmpDir ELSE FALSE
    /\ tmpFile' = IF e # "" THEN tmpFile ELSE <<>>
    /\ IF e # ""
       THEN /\ uerr' = "failed DB hot update"
            /\ UNCHANGED gaugeVars
       ELSE LET res == updateLastDBUpdatePrometheus(Gauge, now, FALSE) IN
            /\ SetGauge(res.g)
            /\ uerr' = IF res.err # "" THEN Wrap(res.err, res.err) ELSE ""
    /\ wpc' = "sleep"

\* update returning nil after hotUpdate without setting the success sample.
UpdateReturn_NeverRecord(e) ==
    /\ herr' = e
    /\ tmpDir' = FALSE
    /\ tmpFile' = <<>>
    /\ uerr' = IF e # "" THEN "failed DB hot update" ELSE ""
    /\ UNCHANGED gaugeVars
    /\ wpc' = "sleep"

\* update recording the success sample whatever hotUpdate returned.
UpdateReturn_AlwaysRecord(e) ==
    /\ herr' = e
    /\ tmpDir' = FALSE
    /\ tmpFile' = <<>>
    /\ LET res == updateLastDBUpdatePrometheus(Gauge, now, FALSE) IN
         /\ SetGauge(res.g)
         /\ uerr' = IF e # "" THEN "failed DB hot update"
                    ELSE IF res.err # "" THEN Wrap(res.err, res.err) ELSE ""
    /\ wpc' = "sleep"

\* hotUpdate returns e ("" for nil): the deferred os.RemoveAll(tmpDir) removes
\* the staging directory, if one was created. update replaces an error of
\* hotUpdate by "failed DB hot update"; after a nil return it sets the success
\* sample.
UpdateReturn(e) ==
    /\ herr' = e
    /\ tmpDir' = FALSE
    /\ tmpFile' = <<>>
    /\ IF e # ""
       THEN /\ uerr' = "failed DB hot update"
            /\ UNCHANGED gaugeVars
       ELSE LET res == updateLastDBUpdatePrometheus(Gauge, now, FALSE) IN
            /\ SetGauge(res.g)
            /\ uerr' = IF res.err # "" THEN Wrap(res.err, res.err) ELSE ""
    /\ wpc' = "sleep"

\* hotUpdate without the deferred dbUpdateWg.Done().
DeferredDone_Missing(e) ==
    /\ dbUpdateWg' = dbUpdateWg
    /\ parked' = parked

\* dbUpdateWg.Done() run only when hotUpdate returns nil.
DeferredDone_OnlyOnSuccess(e) ==
    /\ dbUpdateWg' = IF e = "" THEN dbUpdateWg - 1 ELSE dbUpdateWg
    /\ parked' = IF e = "" THEN {} ELSE parked

\* The deferred dbUpdateWg.Done() of hotUpdate, which is returning e.
DeferredDone(e) ==
    /\ dbUpdateWg' = dbUpdateWg - 1
    /\ parked' = {}

\* hotUpdate returns e after dbUpdateWg.Add(1): the deferred calls run, last
\* registered first, and update goes on.
Unwind(e) ==
    /\ DeferredDone(e)
    /\ drained' = FALSE
    /\ UpdateReturn(e)

\* hotUpdate: ioutil.TempDir("", "db"); on an error hotUpdate returns with no
\* deferred call registered.
HotUpdateTempDir ==
    /\ wpc = "tempDir"
    /\ calls' = calls \cup {"TempDir"}
    /\ \E ok \in BOOLEAN :
         IF ok
         THEN /\ tmpDir' = TRUE
              /\ wpc' = "download"
              /\ UNCHANGED <<tmpFile, gaugeVars, herr, uerr>>
         ELSE UpdateReturn(Wrap("failed to create a temp dir", Fail))
    /\ UNCHANGED <<reqVars, gateVars, now, dbVars, pre>>

\* What calls records of the result of Download.
DownloadReturned(ok) == IF ok THEN "Download=nil" ELSE "Download=err"

\* What calls records of the database file a successful Download staged.
Staged(v) == "staged=" \o ToString(v)

\* hotUpdate going on to the swap although Download failed.
HotUpdateDownload_IgnoreError ==
    /\ wpc = "download"
    /\ \E ok \in BOOLEAN, v \in Published :
         /\ calls' = calls \cup {"Download", DownloadReturned(ok)}
         /\ tmpFile' = Download(TRUE, Fixture(v))
         /\ wpc' = "add"
    /\ UNCHANGED <<reqVars, gateVars, gaugeVars, now, dbVars, tmpDir, herr, uerr, pre>>

\* hotUpdate: w.dbClient.Download(ctx, tmpDir, false); on an error hotUpdate
\* returns and only os.RemoveAll is deferred.
HotUpdateDownload ==
    /\ wpc = "download"
    /\ \E ok \in BOOLEAN, v \in Published :
         /\ calls' = calls \cup {"Download", DownloadReturned(ok)}
                           \cup (IF ok THEN {Staged(v)} ELSE {})
         /\ IF ok
            THEN /\ tmpFile' = Download(ok, Fixture(v))
                 /\ wpc' = "add"
                 /\ UNCHANGED <<tmpDir, gaugeVars, herr, uerr>>
            ELSE UpdateReturn(Wrap("failed to download vulnerability DB", Fail))
    /\ UNCHANGED <<reqVars, gateVars, now, dbVars, pre>>

\* hotUpdate going from dbUpdateWg.Add(1) to db.Close() without calling
\* requestWg.Wait().
HotUpdateAdd_SkipWait ==
    /\ wpc = "add"
    /\ calls' = calls \cup {"Add"}
    /\ dbUpdateWg' = dbUpdateWg + 1
    /\ preAdmitted' = {r \in Requests : rpc[r] = "body"}
    /\ drained' = FALSE
    /\ parked' = {r \in Requests : rpc[r] = "wait"}
    /\ wpc' = "close"
    /\ UNCHANGED <<rpc, rerr, token, requestWg, gaugeVars, now, dbVars, tmpVars, herr, uerr, pre>>

\* hotUpdate: dbUpdateWg.Add(1) and defer dbUpdateWg.Done()
HotUpdateAdd ==
    /\ wpc = "add"
    /\ calls' = calls \cup {"Add"}
    /\ dbUpdateWg' = dbUpdateWg + 1
    /\ preAdmitted' = {r \in Requests : rpc[r] = "body"}
    /\ drained' = FALSE
    /\ parked' = {r \in Requests : rpc[r] = "wait"}
    /\ wpc' = "drain"
    /\ UNCHANGED <<rpc, rerr, token, requestWg, gaugeVars, now, dbVars, tmpVars, herr, uerr, pre>>

\* requestWg.Wait() also waiting for the requests that are in
\* dbUpdateWg.Wait(), as it would if withWaitGroup called requestWg.Add(1)
\* before dbUpdateWg.Wait().
HotUpdateWait_WaitsForParked ==
    /\ wpc = "drain"
    /\ requestWg = 0
    /\ \A r \in Requests : rpc[r] # "wait"
    /\ calls' = calls \cup {"Wait"}
    /\ wpc' = "close"
    /\ UNCHANGED <<reqVars, gateVars, gaugeVars, now, dbVars, tmpVars, herr, uerr, pre>>

\* requestWg.Wait() given a timeout: it returns when the counter is zero or
\* when the timeout has expired.
HotUpdateWait_Timeout ==
    /\ wpc = "drain"
    /\ \E timedOut \in BOOLEAN : timedOut \/ requestWg = 0
    /\ calls' = calls \cup {"Wait"}
    /\ wpc' = "close"
    /\ UNCHANGED <<reqVars, gateVars, gaugeVars, now, dbVars, tmpVars, herr, uerr, pre>>

\* requestWg.Wait() returning without looking at the counter.
HotUpdateWait_NoWait ==
    /\ wpc = "drain"
    /\ calls' = calls \cup {"Wait"}
    /\ wpc' = "close"
    /\ UNCHANGED <<reqVars, gateVars, gaugeVars, now, dbVars, tmpVars, herr, uerr, pre>>

\* hotUpdate: requestWg.Wait() returns: the in-flight counter is zero.
HotUpdateWait ==
    /\ wpc = "drain"
    /\ requestWg = 0
    /\ calls' = calls \cup {"Wait"}
    /\ wpc' = "close"
    /\ UNCHANGED <<reqVars, gateVars, gaugeVars, now, dbVars, tmpVars, herr, uerr, pre>>

\* hotUpdate: db.Close()
HotUpdateClose ==
    /\ wpc = "close"
    /\ \E ok \in BOOLEAN :
         IF ok
         THEN /\ dbOpen' = FALSE
              /\ wpc' = "copy"
              /\ calls' = calls \cup {"Close"}
              /\ UNCHANGED <<dbUpdateWg, parked, drained, tmpVars, gaugeVars, herr, uerr>>
         ELSE /\ Unwind(Wrap("failed to close DB", Fail))
              /\ calls' = calls \cup {"Close", "Done"}
              /\ UNCHANGED dbOpen
    /\ UNCHANGED <<rpc, rerr, token, requestWg, preAdmitted, now, liveFile, liveMeta, pre>>

\* hotUpdate copying db.Path(cacheDir) onto itself.
HotUpdateCopyFile_WrongSource ==
    /\ wpc = "copy"
    /\ \E ok \in BOOLEAN :
         /\ liveFile' = CopyFile(liveFile, liveFile, ok)
         /\ IF ok
            THEN /\ wpc' = "meta"
                 /\ calls' = calls \cup {"CopyFile"}
                 /\ UNCHANGED <<dbUpdateWg, parked, drained, tmpVars, gaugeVars, herr, uerr>>
            ELSE /\ Unwind(Wrap("failed to copy the database file", Fail))
                 /\ calls' = calls \cup {"CopyFile", "Done"}
    /\ UNCHANGED <<rpc, rerr, token, requestWg, preAdmitted, now, dbOpen, liveMeta, pre>>

\* hotUpdate: utils.CopyFile(db.Path(tmpDir), db.Path(cacheDir))
HotUpdateCopyFile ==
    /\ wpc = "copy"
    /\ \E ok \in BOOLEAN :
         /\ liveFile' = CopyFile(tmpFile[1], liveFile, ok)
         /\ IF ok
            THEN /\ wpc' = "meta"
                 /\ calls' = calls \cup {"CopyFile"}
                 /\ UNCHANGED <<dbUpdateWg, parked, drained, tmpVars, gaugeVars, herr, uerr>>
            ELSE /\ Unwind(Wrap("failed to copy the database file", Fail))
                 /\ calls' = calls \cup {"CopyFile", "Done"}
    /\ UNCHANGED <<rpc, rerr, token, requestWg, preAdmitted, now, dbOpen, liveMeta, pre>>

\* hotUpdate: w.dbClient.UpdateMetadata(cacheDir)
HotUpdateUpdateMetadata ==
    /\ wpc = "meta"
    /\ \E ok \in BOOLEAN :
         /\ liveMeta' = UpdateMetadata(liveFile, liveMeta, ok)
         /\ IF ok
            THEN /\ wpc' = "init"
                 /\ calls' = calls \cup {"UpdateMetadata"}
                 /\ UNCHANGED <<dbUpdateWg, parked, drained, tmpVars, gaugeVars, herr, uerr>>
            ELSE /\ Unwind(Wrap("unable to update database metadata", Fail))
                 /\ calls' = calls \cup {"UpdateMetadata", "Done"}
    /\ UNCHANGED <<rpc, rerr, token, requestWg, preAdmitted, now, dbOpen, liveFile, pre>>

\* hotUpdate: db.Init(cacheDir)
HotUpdateInit ==
    /\ wpc = "init"
    /\ \E ok \in BOOLEAN :
         IF ok
         THEN /\ dbOpen' = TRUE
              /\ wpc' = "return"
              /\ calls' = calls \cup {"Init"}
              /\ UNCHANGED <<dbUpdateWg, parked, drained, tmpVars, gaugeVars, herr, uerr>>
         ELSE /\ Unwind(Wrap("failed to open DB", Fail))
              /\ calls' = calls \cup {"Init", "Done"}
              /\ UNCHANGED dbOpen
    /\ UNCHANGED <<rpc, rerr, token, requestWg, preAdmitted, now, liveFile, liveMeta, pre>>

\* hotUpdate: return nil
HotUpdateReturn ==
    /\ wpc = "return"
    /\ Unwind("")
    /\ calls' = calls \cup {"Done"}
    /\ UNCHANGED <<rpc, rerr, token, requestWg, preAdmitted, now, dbVars, pre>>

Request(r) ==
    \/ withToken(r)
    \/ ReqWaitUpdate(r)
    \/ ReqAdd(r)
    \/ ReqServe(r)

Worker ==
    \/ Seed
    \/ UpdateAttempt
    \/ UpdateNeedsUpdate
    \/ HotUpdateTempDir
    \/ HotUpdateDownload
    \/ HotUpdateAdd
    \/ HotUpdateWait
    \/ HotUpdateClose
    \/ HotUpdateCopyFile
    \/ HotUpdateUpdateMetadata
    \/ HotUpdateInit
    \/ HotUpdateReturn

Next ==
    \/ \E r \in Requests : Request(r)
    \/ Worker
    \/ Tick

Spec == Init /\ [][Next]_vars

\* The worker goroutine is scheduled and its timer fires; while some request
\* has passed dbUpdateWg.Wait(), one of them goes on to requestWg.Add(1) or
\* its handler body returns.
Fairness ==
    /\ WF_vars(Worker)
    /\ WF_vars(\E r \in Requests : ReqAdd(r) \/ ReqServe(r))

FairSpec == Spec /\ Fairness

\* Fair scheduling of every goroutine: the worker runs; a request blocked in
\* dbUpdateWg.Wait() is released when the counter reaches zero, even if the
\* counter is raised again later (strong fairness); requestWg.Add(1) and the
\* handler body of every request return.
RequestFairness ==
    \A r \in Requests :
        /\ SF_vars(ReqWaitUpdate(r))
        /\ WF_vars(ReqAdd(r))
        /\ WF_vars(ReqServe(r))

LiveSpec == Spec /\ WF_vars(Worker) /\ RequestFairness

TypeOK ==
    /\ dbUpdateWg \in 0..1
    /\ requestWg \in 0..NumRequests
    /\ rpc \in [Requests -> {"idle", "wait", "add", "body"}]
    /\ now \in Times
    /\ dbOpen \in BOOLEAN
    /\ liveFile \in Files
    /\ liveMeta \in Files
    /\ tmpDir \in BOOLEAN

\* ---------------------------------------------------------- properties

\* Request r is executing the wrapped handler (between requestWg.Add(1) and
\* requestWg.Done()).
InBody(r) == rpc[r] = "body"

\* The updater is between the start of db.Close and the end of db.Init.
Swapping == wpc \in {"copy", "meta", "init"}

\* requestWg.Wait() of the current hotUpdate has returned.
Drained == wpc \in {"close", "copy", "meta", "init", "return"}

\* update has returned and the loop sleeps.
Returned == wpc = "sleep" /\ uerr # "none"

GateCalls == {"Add", "Wait", "Done"}
SwapCalls == {"Close", "CopyFile", "UpdateMetadata", "Init"}

\* The updater has left the database handle, the live file and the persisted
\* metadata as they were at the call of update.
DbUntouched ==
    /\ dbOpen = pre.dbOpen
    /\ liveFile = pre.liveFile
    /\ liveMeta = pre.liveMeta
    /\ calls \cap SwapCalls = {}

\* The updater has not touched the gate and its counter is as at the call.
GateUntouched ==
    /\ dbUpdateWg = pre.dbUpdateWg
    /\ dbUpdateWg = 0
    /\ calls \cap GateCalls = {}

\* C1: no request executes its handler body while the updater is between the
\* start of db.Close and the end of db.Init.
C1_NoBodyDuringSwap == \A r \in Requests : ~(InBody(r) /\ Swapping)

\* C2: once requestWg.Wait() of hotUpdate has returned, every request that
\* was in flight at the updater's dbUpdateWg.Add(1) has executed
\* requestWg.Done(): none of them is still in its handler body when db.Close
\* or the file copy runs.
C2_AdmittedFinishBeforeClose == Drained => preAdmitted = {}

C2_Witness == wpc = "copy" /\ drained /\ preAdmitted = {}

\* C3: a request that calls dbUpdateWg.Wait() after the updater's
\* dbUpdateWg.Add(1) stays in that call, with the in-flight count not
\* incremented for it and its handler body not started, until the updater
\* has executed dbUpdateWg.Done().
C3_ParkedUntilDone ==
    /\ \A r \in parked : rpc[r] = "wait"
    /\ parked # {} => requestWg <= Cardinality(Requests \ parked)

C3_Witness == wpc = "return" /\ dbUpdateWg = 1 /\ parked # {}

\* C4: whenever a request executes its handler body the database handle is
\* open and the live file is a complete database; stated for the states in
\* which no update is pending, which are those after a cycle whose swap
\* failed at db.Close, CopyFile, UpdateMetadata or db.Init and released the
\* gate.
C4_BodySeesOpenDb ==
    \A r \in Requests :
        (InBody(r) /\ dbUpdateWg = 0) => (dbOpen /\ liveFile \in Files)

\* C5: outside the part of hotUpdate between dbUpdateWg.Add(1) and the
\* deferred dbUpdateWg.Done() the update-pending count is zero, whatever the
\* cycle returned, and dbUpdateWg.Wait() of a waiting request can return.
C5_GateReleasedAfterCycle ==
    wpc \in {"seed", "sleep", "needsUpdate", "tempDir", "download", "add"} =>
        /\ dbUpdateWg = 0
        /\ \A r \in Requests : rpc[r] = "wait" => ENABLED ReqWaitUpdate(r)

C5_Witness ==
    /\ Returned
    /\ "Add" \in calls
    /\ herr # ""
    /\ \E r \in Requests : rpc[r] = "wait"

\* C6: the in-flight count equals the number of requests between
\* requestWg.Add(1) and requestWg.Done(), whether handlers answer normally
\* or with an error: it is never negative and is zero when no request is
\* active.
C6_InFlightCount == requestWg = Cardinality({r \in Requests : InBody(r)})

C6_Witness ==
    \E r, q \in Requests :
        /\ rpc[r] = "idle" /\ rerr[r] = "error"
        /\ InBody(q)
        /\ requestWg = 1

\* C7: after update returned because Download failed, its error is "failed
\* DB hot update", no gate operation and no swap step was executed in the
\* cycle, and the update-pending count, the database handle, the live file
\* and the persisted metadata are as at the call of update.
C7_DownloadFailureTouchesNothing ==
    (Returned /\ "Download=err" \in calls) =>
        /\ uerr = "failed DB hot update"
        /\ GateUntouched
        /\ DbUntouched

C7_Witness ==
    /\ Returned
    /\ "Download=err" \in calls
    /\ \E r \in Requests : InBody(r)

\* C8 as stated: after update returned because Download failed, both samples
\* have the values they had when update was called.
C8_GaugeAsBeforeCycle ==
    (Returned /\ "Download=err" \in calls) =>
        /\ attempt = pre.attempt
        /\ success = pre.success

\* C8 as amended: after update returned because Download failed, the
\* last_db_update sample has the value it had when update was called, and
\* the last_db_update_attempt sample is the time of that call.
C8_DownloadFailureKeepsSuccessSample ==
    (Returned /\ "Download=err" \in calls) =>
        /\ success = pre.success
        /\ attempt = <<pre.now>>

C8_Witness ==
    /\ Returned
    /\ "Download=err" \in calls
    /\ attempt # pre.attempt
    /\ pre.success # <<>>

\* C9: after NeedsUpdate returned false with no error, update has returned
\* nil, NeedsUpdate is the only call of the cycle (no staging directory, no
\* Download, no gate operation, no swap step), and of the state only the
\* last_db_update_attempt sample has changed: last_db_update is as at the
\* call.
C9_NoUpdateNeeded ==
    (Returned /\ "NeedsUpdate=false" \in calls) =>
        /\ uerr = ""
        /\ calls = {"NeedsUpdate", "NeedsUpdate=false"}
        /\ GateUntouched
        /\ DbUntouched
        /\ ~tmpDir
        /\ success = pre.success
        /\ attempt = <<pre.now>>

C9_Witness ==
    /\ Returned
    /\ "NeedsUpdate=false" \in calls
    /\ attempt # pre.attempt
    /\ uerr = ""

\* C10: after NeedsUpdate returned an error, update has returned "failed to
\* check if db needs an update", NeedsUpdate is the only call of the cycle
\* (no Download, no gate operation, no db.Close, CopyFile or db.Init), and
\* the last_db_update sample is as at the call.
C10_NeedsUpdateError ==
    (Returned /\ "NeedsUpdate=err" \in calls) =>
        /\ uerr = "failed to check if db needs an update"
        /\ calls = {"NeedsUpdate", "NeedsUpdate=err"}
        /\ GateUntouched
        /\ DbUntouched
        /\ success = pre.success

C10_Witness ==
    /\ Returned
    /\ "NeedsUpdate=err" \in calls
    /\ uerr = "failed to check if db needs an update"
    /\ success # <<>>

\* C11: with a non-nil gauge, the last_db_update_attempt sample holds the
\* time of the call of update from before NeedsUpdate is called until update
\* has returned, whatever NeedsUpdate, Download or the swap return.
C11_AttemptSetBeforeNeedsUpdate ==
    (~gaugeNil /\ (wpc \notin {"seed", "sleep"} \/ Returned)) =>
        attempt = <<pre.now>>

C11_Witness ==
    /\ wpc = "needsUpdate"
    /\ calls = {}
    /\ attempt = <<pre.now>>
    /\ attempt # pre.attempt

\* The cycle that has returned ran hotUpdate and hotUpdate returned nil.
SwapSucceeded ==
    /\ Returned
    /\ NeedsUpdateReturned("true") \in calls
    /\ herr = ""

\* C12: update writes the last_db_update sample if and only if NeedsUpdate
\* returned true and hotUpdate returned nil: such a cycle has written both
\* samples, the success sample no earlier than the attempt sample, and every
\* other cycle leaves last_db_update as it was before the cycle.
C12_SuccessSampleIffSwapSucceeded ==
    Returned =>
        IF SwapSucceeded
        THEN /\ attempt = <<pre.now>>
             /\ success # <<>>
             /\ success[1] \in pre.now..now
        ELSE success = pre.success

C12_Witness ==
    /\ SwapSucceeded
    /\ attempt = <<pre.now>>
    /\ success = <<pre.now>>
    /\ success # pre.success

\* C13: on a nil gauge updateLastDBUpdatePrometheus returns the error
\* "Prometheus gauge found to be nil" and records nothing, and update called
\* with a nil gauge has returned that error, wrapped, without having called
\* NeedsUpdate, Download or any operation on the gate or on the database.
C13_NilGaugeIsAnError ==
    gaugeNil =>
        /\ \A t \in Times, onlyDBAttempt \in BOOLEAN :
             updateLastDBUpdatePrometheus(Gauge, t, onlyDBAttempt) =
                 [err |-> NilGauge, g |-> Gauge]
        /\ Returned =>
             /\ uerr = Wrap(NilGauge, NilGauge)
             /\ calls = {}
             /\ GateUntouched
             /\ DbUntouched
             /\ ~tmpDir

C13_Witness ==
    /\ gaugeNil
    /\ Returned
    /\ uerr = Wrap(NilGauge, NilGauge)
    /\ calls = {}
    /\ pre.now > 0

\* C14: after a cycle in which NeedsUpdate returned true and every later
\* step succeeded, update has returned nil, the live file is the file Download
\* staged, the metadata in the live cache directory is that of the downloaded
\* database, and the handle is open.
C14_SuccessfulCycleInstallsDownload ==
    SwapSucceeded =>
        /\ uerr = ""
        /\ dbOpen
        /\ \E v \in Versions :
             /\ Staged(v) \in calls
             /\ liveFile = Fixture(v)
             /\ liveMeta = Fixture(v)

C14_Witness ==
    /\ SwapSucceeded
    /\ uerr = ""
    /\ dbOpen
    /\ liveFile # pre.liveFile
    /\ liveMeta = liveFile

\* withToken answers request r with the unauthenticated error: the request
\* does not enter withWaitGroup's handler and the gate is left as it is.
Rejected(r) ==
    /\ withToken(r)
    /\ rerr'[r] = "unauthenticated"
    /\ rpc'[r] = "idle"
    /\ UNCHANGED <<gateVars, parked>>

\* C15: a request that withToken answers with the unauthenticated error is
\* neither waiting on the update-pending counter nor counted in flight, and
\* with an empty configured token no request is rejected.
C15_RejectedNeverReachesGate ==
    /\ \A r \in Requests :
         rerr[r] = "unauthenticated" =>
             (token /\ rpc[r] = "idle" /\ r \notin parked)
    /\ requestWg = Cardinality({r \in Requests : InBody(r)})

\* A request was rejected while an update was pending, and with the token
\* configured an arriving request can be rejected.
C15_Witness ==
    /\ token
    /\ dbUpdateWg = 1
    /\ \E r \in Requests :
         /\ rerr[r] = "unauthenticated"
         /\ rpc[r] = "idle"
         /\ r \notin parked
         /\ ENABLED Rejected(r)

\* C16: whatever update returned, the loop is ready to call update again, and,
\* handler bodies returning, update is called again and again (a call on a nil
\* gauge returns at once and leaves no trace, so the calls observed are those
\* on a gauge that is not nil).
C16_LoopNeverStops ==
    /\ [](Returned => ENABLED UpdateAttempt)
    /\ []<>(gaugeNil \/ wpc = "needsUpdate")

C16_Witness ==
    /\ wpc = "needsUpdate"
    /\ ~pre.dbOpen
    /\ calls = {}

\* C17: the error update returns after a failed hotUpdate identifies the stage
\* that failed: it wraps the error of hotUpdate, which is distinct per stage
\* (temp-dir creation, Download, db.Close, CopyFile, UpdateMetadata, db.Init).
C17_UpdateErrorIdentifiesStage ==
    (Returned /\ herr # "") => uerr = Wrap("failed DB hot update", herr)

\* C18: the staging directory exists only between its creation and the return
\* of hotUpdate: whichever step failed after the creation, no staging
\* directory and no staged file exists once the cycle has returned.
C18_StagingDirRemoved ==
    /\ wpc \in {"seed", "sleep", "needsUpdate", "tempDir"} =>
           (~tmpDir /\ tmpFile = <<>>)
    /\ tmpFile # <<>> => tmpDir

C18_Witness ==
    /\ Returned
    /\ DownloadReturned(TRUE) \in calls
    /\ herr # ""
    /\ ~tmpDir
    /\ tmpFile = <<>>

\* The cycle that has returned failed at the decision, the transfer or the
\* swap.
CycleFailed ==
    /\ Returned
    /\ "NeedsUpdate" \in calls
    /\ uerr # ""

\* C19: after a failed update cycle the state carried into the next cycle is
\* the state of before the cycle apart from the attempt sample: the gate is
\* idle, the handle is open, the live file, the metadata and the success
\* sample are those of before the cycle, and no staging directory is left.
C19_FailedCycleCarriesNothingOver ==
    CycleFailed =>
        /\ dbUpdateWg = 0
        /\ dbOpen
        /\ liveFile = pre.liveFile
        /\ liveMeta = pre.liveMeta
        /\ success = pre.success
        /\ ~tmpDir

\* The steps of a cycle that performs a swap, in the order of the code.
StepOrder ==
    <<"NeedsUpdate", "TempDir", "Download", "Add", "Wait",
      "Close", "CopyFile", "UpdateMetadata", "Init", "Done">>

\* The first n steps of StepOrder.
StepPrefix(n) == {StepOrder[i] : i \in 1..n}

\* The number of steps of StepOrder update has behind it at each position.
StepsBefore ==
    [p \in {"needsUpdate", "tempDir", "download", "add", "drain",
            "close", "copy", "meta", "init", "return"} |->
        CASE p = "needsUpdate" -> 0
          [] p = "tempDir" -> 1
          [] p = "download" -> 2
          [] p = "add" -> 3
          [] p = "drain" -> 4
          [] p = "close" -> 5
          [] p = "copy" -> 6
          [] p = "meta" -> 7
          [] p = "init" -> 8
          [] p = "return" -> 9]

\* The prefixes of StepOrder without the deferred Done.
StepPrefixes == {StepPrefix(n) : n \in 0..(Len(StepOrder) - 1)}

\* The steps of StepOrder the current cycle has performed.
StepsDone == {c \in calls : c \in StepPrefix(Len(StepOrder))}

\* C20: within a cycle the steps NeedsUpdate, TempDir, Download, Add, Wait,
\* Close, CopyFile, UpdateMetadata, Init are performed in this order, each
\* from its own position and so at most once; Done comes last, exactly in the
\* cycles that called Add; and the gate is touched only after Download
\* returned nil.
C20_StepsInOrder ==
    /\ IF wpc \in DOMAIN StepsBefore
       THEN StepsDone = StepPrefix(StepsBefore[wpc])
       ELSE StepsDone \ {"Done"} \in StepPrefixes
    /\ "Done" \in calls => (Returned /\ {"Add", "Wait"} \subseteq calls)
    /\ (Returned /\ "Add" \in calls) => "Done" \in calls
    /\ calls \cap GateCalls # {} => DownloadReturned(TRUE) \in calls
    /\ dbUpdateWg > 0 => ("Add" \in calls /\ "Done" \notin calls)

C20_Witness ==
    /\ Returned
    /\ StepsDone = StepPrefix(Len(StepOrder))
    /\ herr = ""

\* C21: whenever the update-pending count is zero, the enter step of a
\* request (dbUpdateWg.Wait() returning, then requestWg.Add(1)) is enabled,
\* however many other requests are in flight and also while the worker is in
\* NeedsUpdate, the creation of the staging directory or Download.
C21_EnterNeverBlockedWithoutUpdate ==
    dbUpdateWg = 0 =>
        \A r \in Requests :
            /\ rpc[r] = "wait" => ENABLED ReqWaitUpdate(r)
            /\ rpc[r] = "add" => ENABLED ReqAdd(r)

C21_Witness ==
    /\ wpc = "download"
    /\ dbUpdateWg = 0
    /\ \E r, q \in Requests :
         /\ InBody(q)
         /\ rpc[r] = "wait"
         /\ ENABLED ReqWaitUpdate(r)

\* C22: under fair scheduling requestWg.Wait() of hotUpdate returns, the
\* update executes dbUpdateWg.Done(), every request parked in
\* dbUpdateWg.Wait() is admitted and completes, and the updater never waits
\* for an in-flight count that no running handler stands for.
C22_DrainAndReleaseTerminate ==
    /\ [](wpc = "drain" /\ requestWg > 0 => \E r \in Requests : InBody(r))
    /\ (wpc = "drain" ~> wpc = "close")
    /\ (dbUpdateWg = 1 ~> dbUpdateWg = 0)
    /\ \A r \in Requests :
         /\ (r \in parked ~> InBody(r))
         /\ (InBody(r) ~> rpc[r] = "idle")

C22_Witness ==
    /\ wpc = "drain"
    /\ requestWg > 0
    /\ parked # {}
    /\ \E r \in Requests : InBody(r)

\* C23: as long as a request admitted before dbUpdateWg.Add(1) has not
\* finished its handler body, the updater is in requestWg.Wait(), which cannot
\* return, db.Close has not been called, and every request that reached
\* dbUpdateWg.Wait() since is parked there and cannot go on: nothing but the
\* end of that handler lets either side proceed.
C23_NoTimeoutOnDrain ==
    (dbUpdateWg = 1 /\ preAdmitted # {}) =>
        /\ wpc = "drain"
        /\ ~ENABLED HotUpdateWait
        /\ "Close" \notin calls
        /\ \A r \in Requests :
             rpc[r] = "wait" => (r \in parked /\ ~ENABLED ReqWaitUpdate(r))

C23_Witness ==
    /\ wpc = "drain"
    /\ dbUpdateWg = 1
    /\ preAdmitted # {}
    /\ parked # {}
    /\ ~ENABLED HotUpdateWait

\* What C24 says of initializeMetricGauge once the metadata was read, for the
\* gauge of the current state and metadata m.
SeedsBothSamples(m) ==
    LET res == initializeMetricGauge(Gauge, TRUE, m) IN
    ~gaugeNil =>
        /\ res.err = ""
        /\ ~res.g.nil
        /\ res.g.attempt = <<m.UpdatedAt>>
        /\ res.g.success = <<m.UpdatedAt>>

\* What C24 says of initializeMetricGauge when the metadata cannot be read.
UnreadableMetadataWritesNothing(m) ==
    LET res == initializeMetricGauge(Gauge, FALSE, m) IN
    /\ res.err # ""
    /\ res.g = Gauge

\* The goroutine has seeded the gauge and has not called update yet.
Seeded == wpc = "sleep" /\ uerr = "none"

\* C24 as stated: before the seeding, initializeMetricGauge sets both samples
\* to UpdatedAt and returns nil on a non-nil gauge with readable metadata,
\* returns an error and writes nothing when the metadata cannot be read, and
\* returns the nil-gauge error on a nil gauge.
C24_NilGaugeAlwaysNilGaugeError ==
    wpc = "seed" =>
        \A m \in Files :
            /\ SeedsBothSamples(m)
            /\ UnreadableMetadataWritesNothing(m)
            /\ \A metaOk \in BOOLEAN :
                 gaugeNil =>
                     initializeMetricGauge(Gauge, metaOk, m).err = Wrap(NilGauge, NilGauge)

\* C24 as amended: the metadata is read first, so the nil-gauge error is
\* returned on a nil gauge whose metadata was read, and the error of the
\* read otherwise; after the seeding of a non-nil gauge both samples hold
\* UpdatedAt of the persisted metadata.
C24_SeedingByCases ==
    /\ wpc = "seed" =>
         \A m \in Files :
             /\ SeedsBothSamples(m)
             /\ UnreadableMetadataWritesNothing(m)
             /\ initializeMetricGauge(Gauge, FALSE, m).err =
                    Wrap("Error initialising the metrics for prometheus endpoint", Fail)
             /\ gaugeNil =>
                    initializeMetricGauge(Gauge, TRUE, m) =
                        [err |-> Wrap(NilGauge, NilGauge), g |-> Gauge]
    /\ (Seeded /\ ~gaugeNil) =>
         (attempt = <<liveMeta.UpdatedAt>> /\ success = <<liveMeta.UpdatedAt>>)

C24_Witness ==
    /\ Seeded
    /\ ~gaugeNil
    /\ attempt = <<liveMeta.UpdatedAt>>
    /\ success = attempt

\* C25: a step of a request (the token check, dbUpdateWg.Wait() returning,
\* requestWg.Add(1), the handler body with its deferred requestWg.Done())
\* leaves both metric samples, the gauge, the update-pending count, the
\* database handle, the live file and its metadata unchanged.
C25_RequestsLeaveWorkerStateAlone ==
    [][\/ UNCHANGED <<gaugeVars, dbUpdateWg, dbVars>>
       \/ ~(\E r \in Requests : Request(r))]_vars

C25_Witness ==
    /\ Seeded
    /\ ~gaugeNil
    /\ \E r, q \in Requests :
         /\ rpc[r] = "idle" /\ rerr[r] = "error"
         /\ InBody(q)
    /\ attempt = <<liveMeta.UpdatedAt>>
    /\ dbUpdateWg = 0
    /\ dbOpen

\* C26: once the goroutine is in its loop, a gauge that was not seeded is
\* nil; a nil gauge stays nil; and with a nil gauge the worker is never past
\* the first statement of update: every cycle has returned the nil-gauge
\* error with no call made, no staging directory, and the gate and the
\* database untouched.
C26_FailedSeedingDisablesUpdates ==
    /\ [](wpc # "seed" /\ attempt = <<>> => gaugeNil)
    /\ [](wpc # "seed" /\ gaugeNil =>
            /\ wpc = "sleep"
            /\ uerr \in {"none", Wrap(NilGauge, NilGauge)}
            /\ calls = {}
            /\ ~tmpDir
            /\ GateUntouched
            /\ DbUntouched)
    /\ [][wpc # "seed" /\ gaugeNil => gaugeNil']_vars

C26_Witness ==
    /\ gaugeNil
    /\ Returned
    /\ now = MaxTime
    /\ pre.now = MaxTime
    /\ liveFile = pre.liveFile
    /\ \E r \in Requests : InBody(r)

\* The positions of hotUpdate between dbUpdateWg.Add(1) and the deferred
\* dbUpdateWg.Done().
BetweenAddAndDone == {"drain", "close", "copy", "meta", "init", "return"}

\* C27: update cycles do not overlap: the update-pending count is 1 exactly
\* while the one worker is between dbUpdateWg.Add(1) and dbUpdateWg.Done()
\* and 0 otherwise, and it was 0 when the current cycle was started.
C27_CyclesNeverOverlap ==
    /\ dbUpdateWg = IF wpc \in BetweenAddAndDone THEN 1 ELSE 0
    /\ pre.dbUpdateWg = 0
    /\ "Add" \in calls => (wpc \in BetweenAddAndDone \/ Returned)

C27_Witness ==
    /\ wpc = "close"
    /\ dbUpdateWg = 1
    /\ pre.liveFile.Version > 1
    /\ pre.now > 0

\* C28: a request for any route, /metrics included, that passed the token
\* check and reached dbUpdateWg.Wait() while an update is pending is parked
\* there, and one that executes its handler is counted in flight, so that
\* requestWg.Wait() of the updater cannot return before it has finished.
C28_EveryRouteBehindTheGate ==
    \A r \in Requests :
        /\ (rpc[r] = "wait" /\ dbUpdateWg = 1) =>
               (r \in parked /\ ~ENABLED ReqWaitUpdate(r))
        /\ InBody(r) =>
               /\ requestWg >= 1
               /\ wpc = "drain" => ~ENABLED HotUpdateWait

C28_Witness ==
    \E r, q \in Requests :
        /\ RouteOf(r) = "/metrics"
        /\ RouteOf(q) # "/metrics"
        /\ wpc = "drain"
        /\ InBody(r)
        /\ ~ENABLED HotUpdateWait
        /\ q \in parked

=============================================================================
